---- MODULE Spec2Model ----
(***************************************************************************)
(* PropertySheet (backend/gradio_propertysheet/propertysheet.py): a        *)
(* component that remembers a dataclass instance and its type, turns an    *)
(* instance into a JSON schema (postprocess) and turns a front-end payload *)
(* back into an instance (preprocess).                                     *)
(*                                                                         *)
(* Python values are encoded as strings ("25", "7.0", "SDXL"); the Python  *)
(* None held in a field is NoneVal.  An object is a record                 *)
(*   [type, root, groups]                                                  *)
(* where root maps the names of the non-dataclass fields to their values   *)
(* and groups maps the names of the dataclass-typed fields to the field    *)
(* values of the nested instance.  None and a non-dataclass value (a bare  *)
(* number) are objects of type NoneType and "int" with no fields.          *)
(***************************************************************************)
EXTENDS Integers, Sequences, FiniteSets, TLC

VARIABLES pc, dataclass_value, dataclass_type, op, prev, arg, payload, ret,
          schema, raised, bound_at_init, extracted

vars == <<pc, dataclass_value, dataclass_type, op, prev, arg, payload, ret,
          schema, raised, bound_at_init, extracted>>

----------------------------------------------------------------------------
(* Python constants *)

NoneType == "NoneType"
NoneVal == "<None>"
MISSING == "<MISSING>"
Absent == "<absent>"

None == [type |-> NoneType, root |-> <<>>, groups |-> <<>>]
BareNumber == [type |-> "int", root |-> <<>>, groups |-> <<>>]

Range(s) == {s[i] : i \in DOMAIN s}

----------------------------------------------------------------------------
(* The dataclasses the component is given.  RenderConfig, SamplingSettings, *)
(* AdvancedSettings, EnvironmentConfig and Lighting follow the demo's       *)
(* declarations, cut down to a few fields (AdvancedSettings declares a      *)
(* cfg_scale of its own, so that two groups own the same name);  AppConfig  *)
(* names its group "general" and Point declares its field with prop_meta,   *)
(* which gives it no default.  A field is                                   *)
(*   [name, type, default, factory, component, label, choices]              *)
(* type: "int", "float", "str", "bool", "Literal" or a dataclass name;      *)
(* default: field.default (MISSING when none is declared);                  *)
(* factory: field.default_factory (MISSING when none is declared);          *)
(* component, label: the metadata entries of that name (Absent if none);    *)
(* choices: the arguments of the Literal type.                              *)

Field(name, type, default, factory, component, label, choices) ==
    [name |-> name, type |-> type, default |-> default, factory |-> factory,
     component |-> component, label |-> label, choices |-> choices]

\* dataclasses.field(metadata=kwargs): a field with metadata and NO default
prop_meta(name, type, component, label) ==
    Field(name, type, MISSING, MISSING, component, label, <<>>)

Dataclasses == {"RenderConfig", "SamplingSettings", "AdvancedSettings",
                "EnvironmentConfig", "Lighting", "AppConfig", "Point"}

\* the dataclasses given to the component (the others are nested groups)
RootClasses == {"RenderConfig", "EnvironmentConfig", "AppConfig", "Point"}

fields(T) ==
    CASE T = "RenderConfig" ->
           << Field("steps", "int", "25", MISSING, Absent, Absent, <<>>),
              Field("model_type", "Literal", "SDXL", MISSING, "dropdown",
                    "Base Model", <<"SD 1.5", "SDXL", "Custom">>),
              Field("sampling", "SamplingSettings", MISSING,
                    "SamplingSettings", Absent, Absent, <<>>),
              Field("advanced", "AdvancedSettings", MISSING,
                    "AdvancedSettings", Absent, Absent, <<>>) >>
      [] T = "SamplingSettings" ->
           << Field("cfg_scale", "float", "7.0", MISSING, "slider",
                    "CFG Scale", <<>>) >>
      [] T = "AdvancedSettings" ->
           << Field("cfg_scale", "float", "1.0", MISSING, Absent, Absent, <<>>) >>
      [] T = "EnvironmentConfig" ->
           << Field("lighting", "Lighting", MISSING, "Lighting", Absent,
                    Absent, <<>>) >>
      [] T = "Lighting" ->
           << Field("background", "Literal", "Sky", MISSING, Absent, Absent,
                    <<"Sky", "Color">>) >>
      [] T = "AppConfig" ->
           << Field("general", "Lighting", MISSING, "Lighting", Absent,
                    Absent, <<>>) >>
      [] T = "Point" ->
           << prop_meta("x", "int", Absent, "X") >>

is_dataclass_type(t) == t \in Dataclasses

\* dataclasses.is_dataclass(value) for a value of the model
is_dataclass(value) == value.type \in Dataclasses

\* the fields of T whose declared type is (is not) a dataclass, in order
NestedFields(T) == SelectSeq(fields(T), LAMBDA f : is_dataclass_type(f.type))
ScalarFields(T) == SelectSeq(fields(T), LAMBDA f : ~is_dataclass_type(f.type))

FieldNames(fs) == {fs[i].name : i \in DOMAIN fs}

\* str.capitalize() and str.replace("_", " ") on the field names in use
capitalize(s) ==
    CASE s = "steps" -> "Steps"
      [] s = "model_type" -> "Model_type"
      [] s = "model type" -> "Model type"
      [] s = "sampling" -> "Sampling"
      [] s = "advanced" -> "Advanced"
      [] s = "cfg_scale" -> "Cfg_scale"
      [] s = "cfg scale" -> "Cfg scale"
      [] s = "lighting" -> "Lighting"
      [] s = "background" -> "Background"
      [] s = "general" -> "General"
      [] s = "x" -> "X"

replace_underscore(s) ==
    CASE s = "model_type" -> "model type"
      [] s = "cfg_scale" -> "cfg scale"
      [] OTHER -> s

----------------------------------------------------------------------------
(* PropertySheet._extract_prop_metadata(obj, field); vals are the field    *)
(* values of obj.  Metadata entries other than component, label and        *)
(* choices are copied through unchanged and are left out.                  *)

\* line 89: the current value, or the declared default when it is None
resolved_value(current_value, field) ==
    IF current_value # NoneVal THEN current_value
    ELSE IF field.default # MISSING THEN field.default ELSE NoneVal

\* lines 93-99: the component named by the metadata, else inferred from the type
resolved_component(field) ==
    IF field.component # Absent THEN field.component
    ELSE CASE field.type = "Literal" -> "dropdown"
           [] field.type = "bool" -> "checkbox"
           [] field.type = "int" -> "number_integer"
           [] field.type = "float" -> "number_float"
           [] OTHER -> "string"

\* lines 101-102: the dropdown of a Literal type
is_literal_dropdown(field) ==
    resolved_component(field) = "dropdown" /\ field.type = "Literal"

\* lines 103-104
dropdown_choices(field) ==
    IF is_literal_dropdown(field) THEN field.choices ELSE <<>>

\* faulty variant of dropdown_value: the membership test left out
dropdown_value_unchecked(value, choices) == value

\* lines 105-106: a value outside the choices becomes the first choice
dropdown_value(value, choices) ==
    IF value \notin Range(choices)
    THEN (IF choices # <<>> THEN choices[1] ELSE NoneVal)
    ELSE value

extract_prop_metadata(vals, field) ==
    LET value == resolved_value(vals[field.name], field)
    IN [name |-> field.name,
        value |-> IF is_literal_dropdown(field)
                  THEN dropdown_value(value, dropdown_choices(field))
                  ELSE value,
        label |-> IF field.label # Absent THEN field.label
                  ELSE capitalize(replace_underscore(field.name)),
        component |-> resolved_component(field),
        choices |-> dropdown_choices(field)]

----------------------------------------------------------------------------
(* PropertySheet.postprocess(value): the returned schema, lines 129-152 *)

group_props(vals, fs) ==
    [i \in DOMAIN fs |-> extract_prop_metadata(vals, fs[i])]

\* lines 141-145: one group per dataclass-typed field, in declaration order
nested_groups(value) ==
    LET nfs == NestedFields(value.type)
    IN [i \in DOMAIN nfs |->
          [group_name |-> capitalize(nfs[i].name),
           properties |-> group_props(value.groups[nfs[i].name],
                                      fields(nfs[i].type))]]

\* lines 146-147
root_properties(value) == group_props(value.root, ScalarFields(value.type))

\* lines 149-150: the "General" group goes first, when it is not empty
general_group(value) ==
    IF root_properties(value) # <<>>
    THEN << [group_name |-> "General", properties |-> root_properties(value)] >>
    ELSE << >>

\* faulty variant of json_schema: the "General" group appended, not inserted
\* at position 0
json_schema_general_last(value) ==
    IF ~is_dataclass(value) THEN << >>
    ELSE nested_groups(value) \o general_group(value)

json_schema(value) ==
    IF ~is_dataclass(value) THEN << >>
    ELSE general_group(value) \o nested_groups(value)

----------------------------------------------------------------------------
(* PropertySheet.preprocess(payload): the reconstructed object *)

\* self._dataclass_type() raises TypeError when a field of the dataclass,
\* or of a dataclass its default_factory builds, has no default
required(f) == f.default = MISSING /\ f.factory = MISSING

default_constructible(T) ==
    \A f \in Range(fields(T)) :
        /\ ~required(f)
        /\ f.factory # MISSING => \A g \in Range(fields(f.factory)) : ~required(g)

default_vals(fs) ==
    [n \in FieldNames(fs) |-> (CHOOSE f \in Range(fs) : f.name = n).default]

\* line 176: a new, default instance of the stored dataclass type
default_instance(T) ==
    [type |-> T,
     root |-> default_vals(ScalarFields(T)),
     groups |-> [g \in FieldNames(NestedFields(T)) |->
                   default_vals(fields(
                     (CHOOSE f \in Range(fields(T)) : f.name = g).factory))]]

\* hasattr(obj, name) on the root object
hasattr(obj, name) == name \in (DOMAIN obj.root) \cup (DOMAIN obj.groups)

\* lines 188-193 / 200-205: the dataclass-typed fields of the root whose
\* object has the attribute, in declaration order
owning_groups(obj, name) ==
    SelectSeq(NestedFields(obj.type),
              LAMBDA f : name \in DOMAIN obj.groups[f.name])

\* faulty variant of target_group: the loop without its break, so that the
\* last match wins
target_group_last(obj, name) ==
    owning_groups(obj, name)[Len(owning_groups(obj, name))].name

\* the loop breaks at the first match
target_group(obj, name) == owning_groups(obj, name)[1].name

\* lines 184-193 / 196-205: root first, else the first nested group, else nothing
set_property(obj, name, new_value) ==
    IF hasattr(obj, name)
    THEN [obj EXCEPT !.root[name] = new_value]
    ELSE IF owning_groups(obj, name) # << >>
         THEN [obj EXCEPT !.groups[target_group(obj, name)][name] = new_value]
         ELSE obj

RECURSIVE set_properties(_, _)
set_properties(obj, props) ==
    IF props = << >> THEN obj
    ELSE set_properties(set_property(obj, Head(props).name, Head(props).value),
                        Tail(props))

RECURSIVE flatten(_)
flatten(groups) ==
    IF groups = << >> THEN << >>
    ELSE Head(groups).properties \o flatten(Tail(groups))

\* a payload is [kind, items]: kind "none" (None), "list" (items: groups of
\* {name, value} properties), "dict" (items: key/value pairs in iteration
\* order) or "other" (anything else, e.g. a string)
payload_props(p) ==
    CASE p.kind = "list" -> flatten(p.items)
      [] p.kind = "dict" -> p.items
      [] OTHER -> << >>

\* line 176: the object the payload is applied to
reconstructed_obj(T, remembered) == default_instance(T)

\* lines 176-207
preprocess_result(T, remembered, p) ==
    set_properties(reconstructed_obj(T, remembered), payload_props(p))

\* faulty variant of preprocess_raises: the early return of lines 170-173
\* left out, so that None is called
preprocess_raises_unguarded(T, p) ==
    p.kind # "none" /\ (T = NoneType \/ ~default_constructible(T))

\* whether preprocess raises: line 176 is reached (lines 167-173 did not
\* return) and the stored type cannot be built without arguments
preprocess_raises(T, p) ==
    p.kind # "none" /\ T # NoneType /\ ~default_constructible(T)

\* faulty variant of preprocess_return: the remembered value returned for a
\* None payload
preprocess_return_remembered(T, remembered, p) ==
    IF p.kind = "none" THEN remembered
    ELSE IF T = NoneType THEN None
    ELSE preprocess_result(T, remembered, p)

\* what preprocess returns when it does not raise, lines 167-207
preprocess_return(T, remembered, p) ==
    IF p.kind = "none" THEN None
    ELSE IF T = NoneType THEN None
    ELSE preprocess_result(T, remembered, p)

\* faulty variant of postprocess_type: the type forgotten when the value is
\* no dataclass instance
postprocess_type_resets(T, value) ==
    IF is_dataclass(value) THEN (IF T = NoneType THEN value.type ELSE T)
    ELSE NoneType

\* self._dataclass_type after postprocess(value), lines 123-127
postprocess_type(T, value) ==
    IF is_dataclass(value) /\ T = NoneType THEN value.type ELSE T

\* self._dataclass_value after postprocess(value), lines 123-124
postprocess_value(remembered, value) ==
    IF is_dataclass(value) THEN value ELSE remembered

----------------------------------------------------------------------------
(* The values and payloads the host and the front-end hand to the component *)

MaxKeys == 1

\* the values a field of dataclass T takes in the instances given to the
\* component: its default, another value and, for a Literal, a value that
\* is not among its choices; "model_type" may also hold None
input_values(T, name) ==
    CASE T = "RenderConfig" /\ name = "steps" -> {"25", "30"}
      [] T = "RenderConfig" /\ name = "model_type" -> {"SDXL", "Pony", NoneVal}
      [] T = "SamplingSettings" /\ name = "cfg_scale" -> {"7.0", "8.0"}
      [] T = "AdvancedSettings" /\ name = "cfg_scale" -> {"1.0"}
      [] T = "Lighting" /\ name = "background" -> {"Sky", "Image"}
      [] T = "Point" /\ name = "x" -> {"1"}

Values ==
    UNION {UNION {input_values(T, f.name) : f \in Range(ScalarFields(T))} :
             T \in Dataclasses}

ValsOf(T) ==
    {v \in [FieldNames(ScalarFields(T)) -> Values] :
        \A n \in DOMAIN v : v[n] \in input_values(T, n)}

GroupsOf(T) ==
    LET nfs == NestedFields(T)
        typeOf(g) == (CHOOSE f \in Range(nfs) : f.name = g).type
    IN {gs \in [FieldNames(nfs) -> UNION {ValsOf(f.type) : f \in Range(nfs)}] :
          \A g \in DOMAIN gs : gs[g] \in ValsOf(typeOf(g))}

Instances ==
    UNION {{[type |-> T, root |-> r, groups |-> gs] :
              r \in ValsOf(T), gs \in GroupsOf(T)} : T \in RootClasses}

\* what __init__ and postprocess may be given
InputValues == Instances \cup {None, BareNumber}

\* the keys of a payload: the names of the rendered properties and a name
\* no dataclass has, in a fixed iteration order
KeyOrder == << "steps", "model_type", "cfg_scale", "background", "x",
               "bogus_key" >>

\* the value the front-end sends for an edited property
edit_value(key) ==
    CASE key = "steps" -> "50"
      [] key = "model_type" -> "Custom"
      [] key = "cfg_scale" -> "9.5"
      [] key = "background" -> "Color"
      [] key = "x" -> "5"
      [] OTHER -> "12345"

KeySets == {ks \in SUBSET Range(KeyOrder) : Cardinality(ks) <= MaxKeys}

edits(ks) ==
    LET keys == SelectSeq(KeyOrder, LAMBDA k : k \in ks)
    IN [i \in DOMAIN keys |-> [name |-> keys[i], value |-> edit_value(keys[i])]]

NonePayload == [kind |-> "none", items |-> << >>]
OtherPayload == [kind |-> "other", items |-> << >>]

\* the flat key/value patch {key: value, ...}
DictPayload(ks) == [kind |-> "dict", items |-> edits(ks)]

\* a list with one group that carries one edited property only
GroupPayload(key) ==
    [kind |-> "list",
     items |-> << [group_name |-> "General", properties |-> edits({key})] >>]

\* the list of groups of a schema, each property reduced to {name, value}
IdentityPayload(sch) ==
    [kind |-> "list",
     items |-> [i \in DOMAIN sch |->
                  [group_name |-> sch[i].group_name,
                   properties |->
                     [j \in DOMAIN sch[i].properties |->
                        [name |-> sch[i].properties[j].name,
                         value |-> sch[i].properties[j].value]]]]]

\* the identity payload with property j of group i edited
EditedPayload(sch, i, j) ==
    LET id == IdentityPayload(sch)
    IN [id EXCEPT !.items[i].properties[j].value =
                     edit_value(id.items[i].properties[j].name)]

Payloads(sch) ==
    {NonePayload, OtherPayload, IdentityPayload(sch)}
    \cup {DictPayload(ks) : ks \in KeySets}
    \cup {GroupPayload(key) : key \in Range(KeyOrder)}
    \cup UNION {{EditedPayload(sch, i, j) : j \in DOMAIN sch[i].properties} :
                  i \in DOMAIN sch}

--------------------------------------------------------------------------------------------------------------------------------------------------
(* The component.                                                          *)
(* pc: "new" before __init__, "live" after it returned, "failed" after it  *)
(*     raised;                                                             *)
(* dataclass_value, dataclass_type: self._dataclass_value and              *)
(*     self._dataclass_type (NoneType for None);                           *)
(* op, prev: the last operation called and the one before it;              *)
(* arg: the value last given to __init__ or postprocess;                   *)
(* schema: what postprocess last returned;                                 *)
(* payload, ret: the payload last given to preprocess and what it          *)
(*     returned; raised: whether the last operation raised;                *)
(* bound_at_init: __init__ was given a dataclass instance;                 *)
(* extracted: postprocess has been given a dataclass instance.             *)

Init ==
    /\ pc = "new"
    /\ dataclass_value = None
    /\ dataclass_type = NoneType
    /\ op = "none"
    /\ prev = "none"
    /\ arg = None
    /\ payload = NonePayload
    /\ ret = None
    /\ schema = << >>
    /\ raised = FALSE
    /\ bound_at_init = FALSE
    /\ extracted = FALSE

\* __init__, lines 55-61
InitCall(value) ==
    /\ pc = "new"
    /\ op' = "__init__"
    /\ prev' = op
    /\ arg' = value
    /\ IF value # None /\ ~is_dataclass(value)
       THEN /\ pc' = "failed"
            /\ raised' = TRUE
            /\ UNCHANGED <<dataclass_value, dataclass_type, bound_at_init>>
       ELSE /\ pc' = "live"
            /\ raised' = FALSE
            /\ dataclass_value' = value
            /\ dataclass_type' = IF is_dataclass(value) THEN value.type
                                 ELSE NoneType
            /\ bound_at_init' = is_dataclass(value)
    /\ UNCHANGED <<payload, ret, schema, extracted>>

\* postprocess, lines 123-152
PostprocessCall(value) ==
    /\ pc = "live"
    /\ op' = "postprocess"
    /\ prev' = op
    /\ arg' = value
    /\ dataclass_value' = postprocess_value(dataclass_value, value)
    /\ dataclass_type' = postprocess_type(dataclass_type, value)
    /\ schema' = json_schema(value)
    /\ payload' = NonePayload
    /\ ret' = None
    /\ raised' = FALSE
    /\ extracted' = (extracted \/ is_dataclass(value))
    /\ UNCHANGED <<pc, bound_at_init>>

\* faulty variant of PreprocessCall: the returned object stored as the
\* remembered value
PreprocessCallCommits(p) ==
    /\ pc = "live"
    /\ op' = "preprocess"
    /\ prev' = op
    /\ payload' = p
    /\ raised' = preprocess_raises(dataclass_type, p)
    /\ ret' = IF preprocess_raises(dataclass_type, p) THEN None
              ELSE preprocess_return(dataclass_type, dataclass_value, p)
    /\ dataclass_value' = IF is_dataclass(ret') THEN ret' ELSE dataclass_value
    /\ UNCHANGED <<pc, dataclass_type, arg, schema, bound_at_init, extracted>>

\* preprocess, lines 167-207
PreprocessCall(p) ==
    /\ pc = "live"
    /\ op' = "preprocess"
    /\ prev' = op
    /\ payload' = p
    /\ raised' = preprocess_raises(dataclass_type, p)
    /\ ret' = IF preprocess_raises(dataclass_type, p) THEN None
              ELSE preprocess_return(dataclass_type, dataclass_value, p)
    /\ UNCHANGED <<pc, dataclass_value, dataclass_type, arg, schema,
                   bound_at_init, extracted>>

Construct == \E value \in InputValues : InitCall(value)

Postprocess == \E value \in InputValues : PostprocessCall(value)

Preprocess == \E p \in Payloads(schema) : PreprocessCall(p)

Next == Construct \/ Postprocess \/ Preprocess

Spec == Init /\ [][Next]_vars

----------------------------------------------------------------------------
(* Vocabulary of the properties *)

Bound == dataclass_type # NoneType

NamesOf(props) == {props[i].name : i \in DOMAIN props}

\* the value the last property named n carries
LastValue(props, n) ==
    LET idx == {i \in DOMAIN props : props[i].name = n}
    IN props[CHOOSE i \in idx : \A j \in idx : j <= i].value

\* the names of all fields an instance of T renders: its own non-dataclass
\* fields and the fields of its nested dataclasses
RenderedNames(T) ==
    FieldNames(ScalarFields(T))
    \cup UNION {FieldNames(fields(f.type)) : f \in Range(NestedFields(T))}

\* the first dataclass-typed field of T, in declaration order, whose
\* dataclass declares a field named n
FirstGroupWith(T, n) ==
    LET nfs == NestedFields(T)
        idx == {i \in DOMAIN nfs : n \in FieldNames(fields(nfs[i].type))}
    IN IF idx = {} THEN Absent
       ELSE nfs[CHOOSE i \in idx : \A j \in idx : i <= j].name

\* base, changed only at the fields props name: a named key goes to the root
\* if the root has a field of that name, else to the first nested group
\* that has it; every other field keeps the value it has in base
Patched(base, props) ==
    LET T == base.type
        named == NamesOf(props)
    IN [type |-> T,
        root |-> [n \in DOMAIN base.root |->
                    IF n \in named THEN LastValue(props, n) ELSE base.root[n]],
        groups |-> [g \in DOMAIN base.groups |->
                      [n \in DOMAIN base.groups[g] |->
                         IF /\ n \in named
                            /\ n \notin FieldNames(fields(T))
                            /\ FirstGroupWith(T, n) = g
                         THEN LastValue(props, n)
                         ELSE base.groups[g][n]]]]

\* the last operation was a preprocess with a dict or list payload, reached
\* past the early returns
Reconciled ==
    op = "preprocess" /\ payload.kind \in {"dict", "list"} /\ Bound

----------------------------------------------------------------------------
\* C1 (as claimed): after extract(I), reconcile(P) with a payload that names
\* only fields of I returns I changed at the named fields only; the fields
\* P does not name keep the value they have in I.
C1_Original ==
    (/\ Reconciled
     /\ prev = "postprocess"
     /\ is_dataclass(arg)
     /\ NamesOf(payload_props(payload)) \subseteq RenderedNames(arg.type))
    => (~raised /\ ret = Patched(arg, payload_props(payload)))

\* C1 (amended): whenever reconcile(P) returns an object, it is the default
\* instance of the remembered type changed at the named fields only (root
\* first, else the first nested group in declaration order that has the
\* field); the fields P does not name have their declared default, whatever
\* the remembered value holds.
C1_Amended ==
    (Reconciled /\ ~raised)
    => ret = Patched(default_instance(dataclass_type), payload_props(payload))

\* extract(I) with steps = 30, then {cfg_scale: 9.5}: sampling.cfg_scale is
\* 9.5, advanced.cfg_scale is untouched, and steps is back at its default 25
C1_Witness ==
    /\ Reconciled
    /\ prev = "postprocess"
    /\ payload = DictPayload({"cfg_scale"})
    /\ arg.type = "RenderConfig"
    /\ dataclass_type = "RenderConfig"
    /\ arg.root["steps"] = "30"
    /\ ret.root["steps"] = "25"
    /\ ret.groups["sampling"]["cfg_scale"] = "9.5"
    /\ ret.groups["advanced"]["cfg_scale"] = "1.0"

----------------------------------------------------------------------------
\* C2 (as claimed): every successful reconcile(P) with a non-absent payload
\* in the BOUND state commits its result: afterwards the remembered value
\* equals the returned object.
C2_Original ==
    (Reconciled /\ ~raised) => dataclass_value = ret

\* C2 (amended): reconcile never commits its result; it leaves the remembered
\* value as it was, so of two successive reconciles {a: x} and {b: y}
\* (a # b) the second returns what {b: y} alone returns: b = y on the
\* default instance, with a back at its declared default.
C2_Amended ==
    [][op' = "preprocess" =>
         /\ dataclass_value' = dataclass_value
         /\ \A a, b \in Range(KeyOrder) :
              (/\ a # b
               /\ op = "preprocess"
               /\ payload = DictPayload({a})
               /\ payload' = DictPayload({b})
               /\ Bound
               /\ ~raised')
              => ret' = Patched(default_instance(dataclass_type), edits({b}))
      ]_vars

\* a reconcile right after a reconcile, returning an object the remembered
\* value does not equal
C2_Witness ==
    /\ Reconciled
    /\ ~raised
    /\ prev = "preprocess"
    /\ payload = DictPayload({"steps"})
    /\ dataclass_type = "RenderConfig"
    /\ ret.root["steps"] = "50"
    /\ ret.groups["sampling"]["cfg_scale"] = "7.0"
    /\ dataclass_value # ret

----------------------------------------------------------------------------
\* C3 (as claimed): reconcile(absent) returns the remembered current value.
C3_Original ==
    (op = "preprocess" /\ payload.kind = "none") => ret = dataclass_value

\* C3 (amended): reconcile(absent) returns absent in every state, also when
\* an instance is remembered, never raises, and leaves the remembered value
\* and the remembered type unchanged.
C3_Amended ==
    [][(op' = "preprocess" /\ payload'.kind = "none") =>
         /\ ret' = None
         /\ ~raised'
         /\ dataclass_value' = dataclass_value
         /\ dataclass_type' = dataclass_type
      ]_vars

\* reconcile(absent) in the BOUND state with an instance remembered
C3_Witness ==
    /\ op = "preprocess"
    /\ payload.kind = "none"
    /\ Bound
    /\ is_dataclass(dataclass_value)
    /\ ret = None

----------------------------------------------------------------------------
\* C5 (as claimed): reconcile(P), P not absent, before any extraction with a
\* record instance returns absent without raising, whatever the component
\* was constructed with.
C5_Original ==
    (op = "preprocess" /\ payload.kind # "none" /\ ~extracted)
    => (ret = None /\ ~raised)

\* C5 (amended): reconcile(P), P not absent, on a component constructed with
\* absent and not yet given a record instance to extract returns absent
\* without raising; a component constructed with a record instance is bound
\* from construction, and what reconcile returns there is an object.
C5_Amended ==
    (op = "preprocess" /\ payload.kind # "none" /\ ~extracted)
    => /\ ~bound_at_init => (ret = None /\ ~raised)
       /\ (bound_at_init /\ ~raised) => is_dataclass(ret)

\* a patch sent to a component constructed with None and never given an
\* instance
C5_Witness ==
    /\ op = "preprocess"
    /\ payload = DictPayload({"steps"})
    /\ ~extracted
    /\ ~bound_at_init
    /\ ret = None
    /\ ~raised

----------------------------------------------------------------------------
\* C6: once the remembered type is known, it is known after every further
\* operation.
C6_TypeStaysKnown ==
    [][dataclass_type # NoneType => dataclass_type' # NoneType]_vars

\* BOUND after a reconcile followed by an extraction of a non-record value
C6_Witness ==
    /\ Bound
    /\ op = "postprocess"
    /\ prev = "preprocess"
    /\ arg = BareNumber

----------------------------------------------------------------------------
\* C7: extract(I) with a record instance I leaves the remembered value equal
\* to I and the remembered type equal to the type of I; hence the remembered
\* value is always absent or an instance of the remembered type.
C7_Claim ==
    /\ (op = "postprocess" /\ is_dataclass(arg))
       => (dataclass_value = arg /\ dataclass_type = arg.type)
    /\ (dataclass_value = None \/ dataclass_value.type = dataclass_type)

----------------------------------------------------------------------------
\* C10: __init__ raises exactly when its value is neither None nor a
\* dataclass instance, a failed construction yields no component, and no
\* other operation raises.
C10_Claim ==
    /\ op = "__init__" => (raised <=> (arg # None /\ ~is_dataclass(arg)))
    /\ (op = "__init__" /\ raised) => pc = "failed"
    /\ op \in {"postprocess", "preprocess"} => ~raised

----------------------------------------------------------------------------
\* the Literal fields of an instance, each with the value it holds
LiteralSlots(obj) ==
    {[field |-> f, value |-> obj.root[f.name]] :
       f \in {g \in Range(ScalarFields(obj.type)) : g.type = "Literal"}}
    \cup UNION {{[field |-> f, value |-> obj.groups[nf.name][f.name]] :
                   f \in {g \in Range(fields(nf.type)) : g.type = "Literal"}} :
                  nf \in Range(NestedFields(obj.type))}

SchemaProps(sch) == UNION {Range(sch[i].properties) : i \in DOMAIN sch}

\* the dropdown descriptors the schema holds for a Literal field
DropdownsOf(sch, f) ==
    {p \in SchemaProps(sch) : p.name = f.name /\ p.component = "dropdown"}

\* C8 (as claimed): the dropdown descriptor of a Literal field carries the
\* declared choices in declared order; its value is the field's current
\* value if that is a choice and the first declared choice otherwise.
C8_Original ==
    (op = "postprocess" /\ is_dataclass(arg)) =>
        \A s \in LiteralSlots(arg) : \A p \in DropdownsOf(schema, s.field) :
            /\ p.choices = s.field.choices
            /\ p.value = IF s.value \in Range(s.field.choices) THEN s.value
                         ELSE s.field.choices[1]

\* C8 (amended): the same of the field's resolved value, which is the
\* current value or, when the current value is None, the declared default:
\* a None in a field whose default is a choice is rendered as that default,
\* not as the first choice.
C8_Amended ==
    (op = "postprocess" /\ is_dataclass(arg)) =>
        \A s \in LiteralSlots(arg) :
            /\ DropdownsOf(schema, s.field) # {}
            /\ \A p \in DropdownsOf(schema, s.field) :
                 LET resolved == IF s.value # NoneVal THEN s.value
                                 ELSE s.field.default
                 IN /\ p.choices = s.field.choices
                    /\ p.value = IF resolved \in Range(s.field.choices)
                                 THEN resolved
                                 ELSE s.field.choices[1]

\* model_type holds "Pony", which is no choice: rendered as "SD 1.5"
C8_Witness ==
    /\ op = "postprocess"
    /\ arg.type = "RenderConfig"
    /\ arg.root["model_type"] = "Pony"
    /\ \E p \in SchemaProps(schema) :
          /\ p.name = "model_type"
          /\ p.value = "SD 1.5"
          /\ p.choices = <<"SD 1.5", "SDXL", "Custom">>

----------------------------------------------------------------------------
PropNames(group) == [j \in DOMAIN group.properties |-> group.properties[j].name]

NameSeq(fs) == [i \in DOMAIN fs |-> fs[i].name]

HasGeneral(sch) == \E i \in DOMAIN sch : sch[i].group_name = "General"

\* the groups of the schema from position k + 1 on are the nested-record
\* fields of T in declaration order, each with its fields in order
NestedGroupsFrom(sch, T, k) ==
    LET ns == NestedFields(T)
    IN /\ Len(sch) = k + Len(ns)
       /\ \A i \in DOMAIN ns :
            /\ sch[k + i].group_name = capitalize(ns[i].name)
            /\ PropNames(sch[k + i]) = NameSeq(fields(ns[i].type))

\* C9 (as claimed): the schema has a group named "General" iff the root has
\* a non-record field; it is then the first group and holds the root
\* non-record fields in order, followed by one group per nested-record field.
C9_Original ==
    (op = "postprocess" /\ is_dataclass(arg)) =>
        LET rs == ScalarFields(arg.type)
        IN /\ HasGeneral(schema) <=> rs # << >>
           /\ HasGeneral(schema) =>
                /\ schema[1].group_name = "General"
                /\ PropNames(schema[1]) = NameSeq(rs)
                /\ NestedGroupsFrom(schema, arg.type, 1)
           /\ ~HasGeneral(schema) => NestedGroupsFrom(schema, arg.type, 0)

\* C9 (amended): the schema starts with the synthetic "General" group, holding
\* the root non-record fields in order, iff the root has a non-record field;
\* the groups of the nested-record fields follow in declaration order, each
\* named by its capitalized field name; so a group named "General" is also
\* there, without any root non-record field, when a nested-record field is
\* itself named "general".
C9_Amended ==
    (op = "postprocess" /\ is_dataclass(arg)) =>
        LET rs == ScalarFields(arg.type)
            ns == NestedFields(arg.type)
        IN /\ rs # << >> =>
                /\ schema[1].group_name = "General"
                /\ PropNames(schema[1]) = NameSeq(rs)
                /\ NestedGroupsFrom(schema, arg.type, 1)
           /\ rs = << >> => NestedGroupsFrom(schema, arg.type, 0)
           /\ HasGeneral(schema) <=>
                (rs # << >> \/ \E f \in Range(ns) : f.name = "general")

\* a root with non-record fields and two nested groups
C9_Witness ==
    /\ op = "postprocess"
    /\ arg.type = "RenderConfig"
    /\ Len(schema) = Len(NestedFields("RenderConfig")) + 1
    /\ schema[1].group_name = "General"
    /\ PropNames(schema[1]) = <<"steps", "model_type">>
    /\ schema[2].group_name = "Sampling"
    /\ schema[3].group_name = "Advanced"

----------------------------------------------------------------------------
\* no field of the instance holds None and every Literal field holds one of
\* its choices, so that every field is rendered with the value it holds
RendersUnchanged(obj) ==
    LET ok(f, v) == /\ v # NoneVal
                    /\ f.type = "Literal" => v \in Range(f.choices)
    IN /\ \A f \in Range(ScalarFields(obj.type)) : ok(f, obj.root[f.name])
       /\ \A nf \in Range(NestedFields(obj.type)) :
            \A f \in Range(fields(nf.type)) : ok(f, obj.groups[nf.name][f.name])

\* no field name of a nested group is also a name of the root or of another
\* nested group
UniqueNames(T) ==
    LET ns == NestedFields(T)
    IN /\ \A i \in DOMAIN ns :
            FieldNames(fields(ns[i].type)) \cap FieldNames(fields(T)) = {}
       /\ \A i, j \in DOMAIN ns :
            i # j => FieldNames(fields(ns[i].type))
                       \cap FieldNames(fields(ns[j].type)) = {}

\* C4: extract(I) followed immediately by reconcile of the identity payload
\* of the returned schema yields a value equal to I.  Stated for the
\* instances whose fields are rendered unchanged and whose field names are
\* unique, where no value is coerced and no lookup is ambiguous.
C4_Claim ==
    (/\ op = "preprocess"
     /\ prev = "postprocess"
     /\ is_dataclass(arg)
     /\ payload = IdentityPayload(schema)
     /\ RendersUnchanged(arg)
     /\ UniqueNames(arg.type))
    => (~raised /\ ret = arg)

====
